---- MODULE Spec2Model ----
(***************************************************************************)
(* Model of app.py: a FastAPI service keeping patient documents in a       *)
(* MongoDB collection reached through three module-level globals (client,  *)
(* db, patients_collection) that an admin endpoint re-points at runtime.   *)
(*                                                                         *)
(* JSON/BSON values are tagged records [t, v]: "str", "int", "oid", "arr"  *)
(* (v a sequence) and "doc" (v a function from keys to values).  A stored  *)
(* document is a function from top-level keys to such values.  The         *)
(* elements of the three medical-record arrays are opaque tokens, each     *)
(* standing for one schema-validated Condition/Medication/Observation.     *)
(***************************************************************************)
EXTENDS Integers, Sequences, FiniteSets, TLC

VARIABLES
    clients,              \* every MongoClient constructed so far: [uri, closed]
    client,               \* global `client`: an index into clients
    db,                   \* global `db`: [cl, name]
    patients_collection,  \* global `patients_collection`: [cl, name]
    stores,               \* server side: <<host, database>> -> sequence of documents
    nextOid,              \* next ObjectId the driver generates
    reopens,              \* the installed driver re-opens a closed client on use
    budget,               \* requests still allowed, per kind (bounds the run)
    offered,              \* the admin requests' inputs sent in this run
    th,                   \* the worker threads, each idle or serving one request; pre
                          \* (the state at the store call) and during (the threads in
                          \* a store call when the request began) are history
    prev                  \* the append a thread completed just before its current request

vars == <<clients, client, db, patients_collection, stores, nextOid, reopens,
          budget, offered, th, prev>>

-----------------------------------------------------------------------------
(* Bounds *)

MaxDocs == 2
MaxAppends == 2
MaxUpdates == 1
MaxClients == 1

-----------------------------------------------------------------------------
(* Optional[str]: None is <<>>, a value s is <<s>> *)

None == <<>>
Some(s) == <<s>>
Truthy(o) == o # None /\ o[1] # ""

ADMIN_USERNAME == "admin"
ADMIN_PASSWORD == "cse-512-master-password"

-----------------------------------------------------------------------------
(* JSON values *)

JStr(s) == [t |-> "str", v |-> s]
JInt(n) == [t |-> "int", v |-> n]
JOid(n) == [t |-> "oid", v |-> n]
JArr(q) == [t |-> "arr", v |-> q]
JDoc(f) == [t |-> "doc", v |-> f]

IsDoc(x) == x.t = "doc"
IsArr(x) == x.t = "arr"

ArrayNames == {"conditions", "medications", "observations"}

\* variant: dict(exclude_defaults=True)-like, empty lists left out
MedicalRecordsDictSparse(mr) ==
    JDoc([a \in {b \in ArrayNames : mr[b] # <<>>} |-> JArr(mr[a])])

\* MedicalRecords.dict(): the three lists, under their field names
MedicalRecordsDict(mr) ==
    JDoc([a \in ArrayNames |-> JArr(mr[a])])

\* Patient.dict(): the six declared fields, medicalRecords nested
PatientDict(p) ==
    [k \in {"patientID", "name", "age", "gender", "region", "medicalRecords"} |->
        CASE k = "patientID" -> JStr(p.patientID)
          [] k = "name" -> JStr(p.name)
          [] k = "age" -> JInt(p.age)
          [] k = "gender" -> JStr(p.gender)
          [] k = "region" -> JStr(p.region)
          [] k = "medicalRecords" -> MedicalRecordsDict(p.medicalRecords)]

\* v has the shape of MedicalRecords: a document of exactly the three arrays
MedicalRecordsShape(x) ==
    /\ IsDoc(x)
    /\ DOMAIN x.v = ArrayNames
    /\ \A a \in ArrayNames : IsArr(x.v[a])

-----------------------------------------------------------------------------
(* The document store's operations on one collection (a sequence of        *)
(* documents in natural order), as the handlers call them.                 *)

\* filter {"patientID": id}
Matches(d, id) ==
    /\ "patientID" \in DOMAIN d
    /\ d["patientID"].t = "str"
    /\ d["patientID"].v = id

\* find_one / update_one pick the first match in natural order; 0 when none
FirstMatch(docs, id) ==
    IF \E i \in 1..Len(docs) : Matches(docs[i], id)
    THEN CHOOSE i \in 1..Len(docs) :
            /\ Matches(docs[i], id)
            /\ \A j \in 1..(i - 1) : ~Matches(docs[j], id)
    ELSE 0

\* insert_one: the driver adds a fresh _id and the document goes last
InsertOne(docs, d, oid) ==
    Append(docs, [k \in DOMAIN d \cup {"_id"} |-> IF k = "_id" THEN JOid(oid) ELSE d[k]])

\* One "$set" entry.  The key is a path, its string split at the dots.
\* Result: [ok, doc].  Writing _id, or below a value that is no document, is
\* a write error.
SetPath(d, path, val) ==
    IF Len(path) = 1
    THEN IF path[1] = "_id"
         THEN [ok |-> FALSE, doc |-> d]
         ELSE [ok |-> TRUE,
               doc |-> [k \in DOMAIN d \cup {path[1]} |->
                          IF k = path[1] THEN val ELSE d[k]]]
    ELSE IF path[1] \notin DOMAIN d
         THEN [ok |-> TRUE,
               doc |-> [k \in DOMAIN d \cup {path[1]} |->
                          IF k = path[1]
                          THEN JDoc([j \in {path[2]} |-> val]) ELSE d[k]]]
         ELSE IF ~IsDoc(d[path[1]])
              THEN [ok |-> FALSE, doc |-> d]
              ELSE [ok |-> TRUE,
                    doc |-> [d EXCEPT ![path[1]] =
                        JDoc([j \in DOMAIN d[path[1]].v \cup {path[2]} |->
                                IF j = path[2] THEN val ELSE d[path[1]].v[j]])]]

\* {"$set": fm} on one document: the entries in turn, all or nothing
RECURSIVE SetAll(_, _)
SetAll(d, fm) ==
    IF fm = <<>> THEN [ok |-> TRUE, doc |-> d]
    ELSE LET r == SetPath(d, fm[1].path, fm[1].val)
         IN  IF r.ok THEN SetAll(r.doc, Tail(fm)) ELSE [ok |-> FALSE, doc |-> d]

\* variant: the update document without "$set", which replaces the document
UpdateOneReplace(docs, id, fm) ==
    LET i == FirstMatch(docs, id)
    IN  IF i = 0 THEN [matched |-> 0, error |-> FALSE, docs |-> docs]
        ELSE LET r == SetAll([k \in {"_id"} |-> docs[i]["_id"]], fm)
             IN  IF r.ok
                 THEN [matched |-> 1, error |-> FALSE,
                       docs |-> [docs EXCEPT ![i] = r.doc]]
                 ELSE [matched |-> 1, error |-> TRUE, docs |-> docs]

\* update_one({"patientID": id}, {"$set": fm}) -> [matched, error, docs]
UpdateOneSet(docs, id, fm) ==
    LET i == FirstMatch(docs, id)
    IN  IF i = 0 THEN [matched |-> 0, error |-> FALSE, docs |-> docs]
        ELSE LET r == SetAll(docs[i], fm)
             IN  IF r.ok
                 THEN [matched |-> 1, error |-> FALSE,
                       docs |-> [docs EXCEPT ![i] = r.doc]]
                 ELSE [matched |-> 1, error |-> TRUE, docs |-> docs]

\* variant: "$addToSet" in place of "$push"
AddToSetPath(d, arr, e) ==
    IF "medicalRecords" \notin DOMAIN d
    THEN SetPath(d, <<"medicalRecords", arr>>, JArr(<<e>>))
    ELSE IF ~IsDoc(d["medicalRecords"])
         THEN [ok |-> FALSE, doc |-> d]
         ELSE IF arr \notin DOMAIN d["medicalRecords"].v
              THEN SetPath(d, <<"medicalRecords", arr>>, JArr(<<e>>))
              ELSE IF ~IsArr(d["medicalRecords"].v[arr])
                   THEN [ok |-> FALSE, doc |-> d]
                   ELSE IF \E n \in 1..Len(d["medicalRecords"].v[arr].v) :
                                d["medicalRecords"].v[arr].v[n] = e
                        THEN [ok |-> TRUE, doc |-> d]
                        ELSE SetPath(d, <<"medicalRecords", arr>>,
                                     JArr(Append(d["medicalRecords"].v[arr].v, e)))

\* {"$push": {"medicalRecords.<arr>": e}} on one document -> [ok, doc]
PushPath(d, arr, e) ==
    IF "medicalRecords" \notin DOMAIN d
    THEN SetPath(d, <<"medicalRecords", arr>>, JArr(<<e>>))
    ELSE IF ~IsDoc(d["medicalRecords"])
         THEN [ok |-> FALSE, doc |-> d]
         ELSE IF arr \notin DOMAIN d["medicalRecords"].v
              THEN SetPath(d, <<"medicalRecords", arr>>, JArr(<<e>>))
              ELSE IF ~IsArr(d["medicalRecords"].v[arr])
                   THEN [ok |-> FALSE, doc |-> d]
                   ELSE SetPath(d, <<"medicalRecords", arr>>,
                                JArr(Append(d["medicalRecords"].v[arr].v, e)))

\* update_one({"patientID": id}, {"$push": ...}) -> [matched, error, docs]
UpdateOnePush(docs, id, arr, e) ==
    LET i == FirstMatch(docs, id)
    IN  IF i = 0 THEN [matched |-> 0, error |-> FALSE, docs |-> docs]
        ELSE LET r == PushPath(docs[i], arr, e)
             IN  IF r.ok
                 THEN [matched |-> 1, error |-> FALSE,
                       docs |-> [docs EXCEPT ![i] = r.doc]]
                 ELSE [matched |-> 1, error |-> TRUE, docs |-> docs]

-----------------------------------------------------------------------------
(* The handlers' bodies from the store call on, as functions of the        *)
(* collection's documents: [status, body, docs].                           *)

NoBody == JStr("-")

Reply(status, body, docs) == [status |-> status, body |-> body, docs |-> docs]

create_patient(docs, p, oid) ==
    Reply(200, JOid(oid), InsertOne(docs, PatientDict(p), oid))

\* variant: find_one without the patientID filter
get_patient_unfiltered(docs, id) ==
    IF docs = <<>> THEN Reply(404, NoBody, docs) ELSE Reply(200, JDoc(docs[1]), docs)

get_patient(docs, id) ==
    LET i == FirstMatch(docs, id)
    IN  IF i = 0 THEN Reply(404, NoBody, docs) ELSE Reply(200, JDoc(docs[i]), docs)

update_patient(docs, id, fm) ==
    LET r == UpdateOneSet(docs, id, fm)
    IN  IF r.error THEN Reply(500, NoBody, r.docs)
        ELSE IF r.matched = 0 THEN Reply(404, NoBody, r.docs)
        ELSE Reply(200, NoBody, r.docs)

\* find_one with the projection {"_id": 0, "medicalRecords": 1}
get_medical_records(docs, id) ==
    LET i == FirstMatch(docs, id)
    IN  IF i = 0 \/ "medicalRecords" \notin DOMAIN docs[i]
        THEN Reply(404, NoBody, docs)
        ELSE Reply(200, docs[i]["medicalRecords"], docs)

\* variant: the new lists pushed onto the stored ones instead of replacing them
update_medical_records_merging(docs, id, mr) ==
    LET i == FirstMatch(docs, id)
        old(a) == IF "medicalRecords" \in DOMAIN docs[i]
                     /\ MedicalRecordsShape(docs[i]["medicalRecords"])
                  THEN docs[i]["medicalRecords"].v[a].v ELSE <<>>
    IN  IF i = 0 THEN Reply(404, NoBody, docs)
        ELSE Reply(200, NoBody,
                   UpdateOneSet(docs, id,
                       <<[path |-> <<"medicalRecords">>,
                          val |-> JDoc([a \in ArrayNames |-> JArr(old(a) \o mr[a])])]>>).docs)

update_medical_records(docs, id, mr) ==
    LET r == UpdateOneSet(docs, id,
                 <<[path |-> <<"medicalRecords">>, val |-> MedicalRecordsDict(mr)]>>)
    IN  IF r.error THEN Reply(500, NoBody, r.docs)
        ELSE IF r.matched = 0 THEN Reply(404, NoBody, r.docs)
        ELSE Reply(200, NoBody, r.docs)

\* variant: matched_count is not looked at
add_element_unchecked(docs, id, arr, e) ==
    LET r == UpdateOnePush(docs, id, arr, e)
    IN  IF r.error THEN Reply(500, NoBody, r.docs) ELSE Reply(200, NoBody, r.docs)

\* add_condition / add_medication / add_observation differ in the array only
add_element(docs, id, arr, e) ==
    LET r == UpdateOnePush(docs, id, arr, e)
    IN  IF r.error THEN Reply(500, NoBody, r.docs)
        ELSE IF r.matched = 0 THEN Reply(404, NoBody, r.docs)
        ELSE Reply(200, NoBody, r.docs)

add_condition(docs, id, e) == add_element(docs, id, "conditions", e)
add_medication(docs, id, e) == add_element(docs, id, "medications", e)
add_observation(docs, id, e) == add_element(docs, id, "observations", e)

-----------------------------------------------------------------------------
(* Connections *)

Hosts == {"localhost", "replica"}
DbNames == {"ehr_database", "backup"}
Targets == Hosts \X DbNames

\* MONGO_DETAILS and the three globals built from it at import
InitialUri == [user |-> None, pass |-> None, host |-> "localhost", port |-> 27017]
InitialDb == "ehr_database"

\* lines 81-84: credentials go into the URI only when both are truthy
MongoUri(details) ==
    IF Truthy(details.username) /\ Truthy(details.password)
    THEN [user |-> details.username, pass |-> details.password,
          host |-> details.host, port |-> details.port]
    ELSE [user |-> None, pass |-> None,
          host |-> details.host, port |-> details.port]

\* MongoClient(uri) connects lazily; it raises only when the URI does not parse
ValidUri(uri) == uri.host # "" /\ uri.port \in 0..65535

\* client[name] raises InvalidName for an empty name or one with a reserved character
ValidDbName(name) == name \notin {"", "ehr.v2"}

\* variant: `and` for `or` in the test, so one matching header is enough
authenticate_admin_either(username, password) ==
    ~(username # Some(ADMIN_USERNAME) /\ password # Some(ADMIN_PASSWORD))

\* authenticate_admin lets the request through
authenticate_admin(username, password) ==
    ~(username # Some(ADMIN_USERNAME) \/ password # Some(ADMIN_PASSWORD))

\* the server-side collection a collection handle talks to
Target(h) == <<clients[h.cl].uri.host, h.name>>
Docs(h) == stores[Target(h)]

\* a store call through handle h goes through: its client is open, or the
\* driver re-opens a closed client
Usable(h) == ~clients[h.cl].closed \/ reopens

Snap == [stores |-> stores, clients |-> clients, client |-> client, db |-> db,
         patients_collection |-> patients_collection]

-----------------------------------------------------------------------------
(* Request inputs *)

Ids == {"p1", "p2"}

EmptyRecords == [conditions |-> <<>>, medications |-> <<>>, observations |-> <<>>]
FilledRecords == [conditions |-> <<"c9">>, medications |-> <<"m9">>, observations |-> <<>>]
RecordInputs == {EmptyRecords, FilledRecords}

PatientInputs ==
    {[patientID |-> i, name |-> pr[1], age |-> pr[2], gender |-> pr[3],
      region |-> pr[4], medicalRecords |-> pr[5]] :
        i \in Ids, pr \in {<<"Jane", 30, "F", "NE", EmptyRecords>>,
                            <<"Bob", 40, "M", "SW", FilledRecords>>}}

Elements == [conditions |-> {"c1", "c2"}, medications |-> {"m1"},
             observations |-> {"o1"}]

\* update_data: a dict, its keys split at the dots, in the dict's order
Entry(path, val) == [path |-> path, val |-> val]
FieldMapInputs ==
    {<<Entry(<<"age">>, JInt(40))>>,
     <<Entry(<<"name">>, JStr("Bob")), Entry(<<"region">>, JStr("SW"))>>,
     <<Entry(<<"nickname">>, JStr("JJ"))>>,
     <<Entry(<<"patientID">>, JStr("p2"))>>,
     <<Entry(<<"medicalRecords">>, JStr("n/a"))>>,
     <<Entry(<<"medicalRecords">>, JDoc([a \in {"conditions"} |-> JArr(<<"c2">>)]))>>,
     <<Entry(<<"medicalRecords">>, MedicalRecordsDict(EmptyRecords))>>,
     <<Entry(<<"medicalRecords", "conditions">>, JArr(<<"c2">>))>>,
     <<Entry(<<"medicalRecords", "conditions">>, JStr("none"))>>,
     <<Entry(<<"age">>, JInt(40)), Entry(<<"_id">>, JStr("x"))>>}

UsernameInputs == {None, Some(ADMIN_USERNAME)}
PasswordInputs == {Some(ADMIN_PASSWORD), Some(ADMIN_USERNAME)}

Details(host, port, username, password, database) ==
    [host |-> host, port |-> port, username |-> username, password |-> password,
     database |-> database]
ConnectionInputs ==
    {Details("localhost", 27017, None, None, "ehr_database"),
     Details("replica", 27017, None, None, "ehr_database"),
     Details("localhost", 27017, Some("root"), Some("pw"), "backup"),
     Details("replica", 27017, Some("root"), None, "backup"),
     Details("replica", 65536, None, None, "backup"),
     Details("replica", 27017, None, None, "")}
AllAdminInputs ==
    [usernames |-> UsernameInputs, passwords |-> PasswordInputs,
     details |-> ConnectionInputs]
\* for the two-thread runs: the right headers, two targets and a malformed one
FewAdminInputs ==
    [usernames |-> {Some(ADMIN_USERNAME)}, passwords |-> {Some(ADMIN_PASSWORD)},
     details |-> {Details("replica", 27017, None, None, "ehr_database"),
                  Details("localhost", 27017, Some("root"), Some("pw"), "backup"),
                  Details("replica", 65536, None, None, "backup")}]
NoAdminInputs == [usernames |-> {}, passwords |-> {}, details |-> {}]

-----------------------------------------------------------------------------
(* Worker threads.  FastAPI runs each `def` handler on a thread of its     *)
(* pool: a handler is a sequence of steps that other threads' steps may    *)
(* interleave with.                                                        *)

NoHandle == [cl |-> 0, name |-> "-"]
Idle == [pc |-> "idle", op |-> "-", id |-> "-", arg |-> <<>>, coll |-> NoHandle,
         uri |-> <<>>, status |-> 0, body |-> NoBody, pre |-> <<>>, made |-> 0,
         during |-> {}]

AddOps == {"add_condition", "add_medication", "add_observation"}
ArrayOf(op) ==
    CASE op = "add_condition" -> "conditions"
      [] op = "add_medication" -> "medications"
      [] op = "add_observation" -> "observations"

NoPrev == [op |-> "-", id |-> "-", arg |-> <<>>, coll |-> NoHandle, status |-> 0,
           pre |-> <<>>]

Free(t) == th[t].pc \in {"idle", "done"}

\* the threads whose store call is under way
InCall == {u \in DOMAIN th : th[u].pc = "call"}

\* what the thread remembers of the request it has just completed
Shift(t) ==
    IF th[t].pc = "done" /\ th[t].op \in AddOps
    THEN [op |-> th[t].op, id |-> th[t].id, arg |-> th[t].arg, coll |-> th[t].coll,
          status |-> th[t].status, pre |-> th[t].pre]
    ELSE NoPrev

\* thread t leaves the request that thread u overlapped with
Forget(u, t) == [th[u] EXCEPT !.during = @ \ {t}]

\* A Record Service handler starts: it evaluates the global patients_collection
Begin(t, op, id, arg) ==
    /\ Free(t)
    /\ th' = [u \in DOMAIN th |->
                 IF u = t
                 THEN [Idle EXCEPT !.pc = "call", !.op = op, !.id = id, !.arg = arg,
                                   !.coll = patients_collection,
                                   !.during = InCall]
                 ELSE Forget(u, t)]
    /\ prev' = [prev EXCEPT ![t] = Shift(t)]
    /\ UNCHANGED <<clients, client, db, patients_collection, stores, nextOid, reopens, offered>>

\* The store call returns (or raises) and the handler answers
End(t, op, r) ==
    /\ th[t].pc = "call"
    /\ th[t].op = op
    /\ LET a == IF Usable(th[t].coll) THEN r
                ELSE Reply(500, NoBody, Docs(th[t].coll))
       IN  /\ stores' = [stores EXCEPT ![Target(th[t].coll)] = a.docs]
           /\ th' = [th EXCEPT ![t].pc = "done", ![t].status = a.status,
                               ![t].body = a.body, ![t].pre = Snap]
           /\ nextOid' = IF op = "create_patient" /\ a.status = 200
                         THEN nextOid + 1 ELSE nextOid
    /\ UNCHANGED <<clients, client, db, patients_collection, reopens, budget, offered, prev>>

Spend(kind) ==
    /\ budget[kind] > 0
    /\ budget' = [budget EXCEPT ![kind] = @ - 1]

StartCreate(t) ==
    \E p \in PatientInputs :
        Spend("docs") /\ Begin(t, "create_patient", p.patientID, p)
CallCreate(t) ==
    End(t, "create_patient", create_patient(Docs(th[t].coll), th[t].arg, nextOid))

StartGet(t) ==
    \E id \in Ids : Begin(t, "get_patient", id, <<>>) /\ UNCHANGED budget
CallGet(t) ==
    End(t, "get_patient", get_patient(Docs(th[t].coll), th[t].id))

StartUpdate(t) ==
    \E id \in Ids, fm \in FieldMapInputs :
        Spend("updates") /\ Begin(t, "update_patient", id, fm)
CallUpdate(t) ==
    End(t, "update_patient", update_patient(Docs(th[t].coll), th[t].id, th[t].arg))

StartGetRecords(t) ==
    \E id \in Ids : Begin(t, "get_medical_records", id, <<>>) /\ UNCHANGED budget
CallGetRecords(t) ==
    End(t, "get_medical_records", get_medical_records(Docs(th[t].coll), th[t].id))

StartUpdateRecords(t) ==
    \E id \in Ids, mr \in RecordInputs :
        Spend("updates") /\ Begin(t, "update_medical_records", id, mr)
CallUpdateRecords(t) ==
    End(t, "update_medical_records",
        update_medical_records(Docs(th[t].coll), th[t].id, th[t].arg))

StartAddCondition(t) ==
    \E id \in Ids, e \in Elements.conditions :
        Spend("appends") /\ Begin(t, "add_condition", id, e)
CallAddCondition(t) ==
    End(t, "add_condition", add_condition(Docs(th[t].coll), th[t].id, th[t].arg))

StartAddMedication(t) ==
    \E id \in Ids, e \in Elements.medications :
        Spend("appends") /\ Begin(t, "add_medication", id, e)
CallAddMedication(t) ==
    End(t, "add_medication", add_medication(Docs(th[t].coll), th[t].id, th[t].arg))

StartAddObservation(t) ==
    \E id \in Ids, e \in Elements.observations :
        Spend("appends") /\ Begin(t, "add_observation", id, e)
CallAddObservation(t) ==
    End(t, "add_observation", add_observation(Docs(th[t].coll), th[t].id, th[t].arg))

-----------------------------------------------------------------------------
(* change_connection, line by line *)

\* The dependency authenticate_admin runs first (401 when it raises); then
\* lines 81-84 build the URI
StartChange(t) ==
    \E username \in offered.usernames, password \in offered.passwords,
       details \in offered.details :
        /\ Free(t)
        /\ LET req == [Idle EXCEPT !.op = "change_connection",
                          !.arg = [details |-> details, username |-> username,
                                   password |-> password],
                          !.pre = Snap]
           IN  IF authenticate_admin(username, password)
               THEN /\ Spend("clients")
                    /\ th' = [u \in DOMAIN th |->
                                 IF u = t
                                 THEN [req EXCEPT !.pc = "close",
                                                  !.uri = MongoUri(details)]
                                 ELSE Forget(u, t)]
               ELSE /\ th' = [u \in DOMAIN th |->
                                 IF u = t
                                 THEN [req EXCEPT !.pc = "done", !.status = 401]
                                 ELSE Forget(u, t)]
                    /\ UNCHANGED budget
        /\ prev' = [prev EXCEPT ![t] = Shift(t)]
        /\ UNCHANGED <<clients, client, db, patients_collection, stores, nextOid, reopens, offered>>

\* line 87: client.close()
CloseClient(t) ==
    /\ th[t].pc = "close"
    /\ clients' = [clients EXCEPT ![client].closed = TRUE]
    /\ th' = [th EXCEPT ![t].pc = "construct"]
    /\ UNCHANGED <<client, db, patients_collection, stores, nextOid, reopens, budget, offered, prev>>

\* line 90: client = MongoClient(mongo_uri); an exception goes to line 97
Construct(t) ==
    /\ th[t].pc = "construct"
    /\ IF ValidUri(th[t].uri)
       THEN /\ clients' = Append(clients, [uri |-> th[t].uri, closed |-> FALSE])
            /\ client' = Len(clients) + 1
            /\ th' = [th EXCEPT ![t].pc = "db", ![t].made = Len(clients) + 1]
       ELSE /\ th' = [th EXCEPT ![t].pc = "done", ![t].status = 500]
            /\ UNCHANGED <<clients, client>>
    /\ UNCHANGED <<db, patients_collection, stores, nextOid, reopens, budget, offered, prev>>

\* line 91: db = client[details.database]; an exception goes to line 97
SetDb(t) ==
    /\ th[t].pc = "db"
    /\ IF ValidDbName(th[t].arg.details.database)
       THEN /\ db' = [cl |-> client, name |-> th[t].arg.details.database]
            /\ th' = [th EXCEPT ![t].pc = "coll"]
       ELSE /\ th' = [th EXCEPT ![t].pc = "done", ![t].status = 500]
            /\ UNCHANGED db
    /\ UNCHANGED <<clients, client, patients_collection, stores, nextOid, reopens,
                   budget, offered, prev>>

\* lines 92-94: patients_collection = db["patients"], then the 200 answer
SetCollection(t) ==
    /\ th[t].pc = "coll"
    /\ patients_collection' = db
    /\ th' = [th EXCEPT ![t].pc = "done", ![t].status = 200]
    /\ UNCHANGED <<clients, client, db, stores, nextOid, reopens, budget, offered, prev>>

-----------------------------------------------------------------------------
(* Specifications *)

InitWith(threads, builds, allowed, sent) ==
    /\ clients = <<[uri |-> InitialUri, closed |-> FALSE]>>
    /\ client = 1
    /\ db = [cl |-> 1, name |-> InitialDb]
    /\ patients_collection = [cl |-> 1, name |-> InitialDb]
    /\ stores = [x \in Targets |-> <<>>]
    /\ nextOid = 1
    /\ reopens \in builds
    /\ budget = allowed
    /\ offered = sent
    /\ th = [t \in threads |-> Idle]
    /\ prev = [t \in threads |-> NoPrev]

RecordNext ==
    \/ \E t \in DOMAIN th : StartCreate(t)
    \/ \E t \in DOMAIN th : CallCreate(t)
    \/ \E t \in DOMAIN th : StartGet(t)
    \/ \E t \in DOMAIN th : CallGet(t)
    \/ \E t \in DOMAIN th : StartUpdate(t)
    \/ \E t \in DOMAIN th : CallUpdate(t)
    \/ \E t \in DOMAIN th : StartGetRecords(t)
    \/ \E t \in DOMAIN th : CallGetRecords(t)
    \/ \E t \in DOMAIN th : StartUpdateRecords(t)
    \/ \E t \in DOMAIN th : CallUpdateRecords(t)
    \/ \E t \in DOMAIN th : StartAddCondition(t)
    \/ \E t \in DOMAIN th : CallAddCondition(t)
    \/ \E t \in DOMAIN th : StartAddMedication(t)
    \/ \E t \in DOMAIN th : CallAddMedication(t)
    \/ \E t \in DOMAIN th : StartAddObservation(t)
    \/ \E t \in DOMAIN th : CallAddObservation(t)

AdminNext ==
    \/ \E t \in DOMAIN th : StartChange(t)
    \/ \E t \in DOMAIN th : CloseClient(t)
    \/ \E t \in DOMAIN th : Construct(t)
    \/ \E t \in DOMAIN th : SetDb(t)
    \/ \E t \in DOMAIN th : SetCollection(t)

\* The Record Service on the connection made at import, one request at a time
Init ==
    InitWith({1}, {FALSE},
             [docs |-> MaxDocs, appends |-> MaxAppends, updates |-> MaxUpdates,
              clients |-> 0],
             NoAdminInputs)
Next == RecordNext
Spec == Init /\ [][Next]_vars

CreateGetNext ==
    \/ \E t \in DOMAIN th : StartCreate(t)
    \/ \E t \in DOMAIN th : CallCreate(t)
    \/ \E t \in DOMAIN th : StartGet(t)
    \/ \E t \in DOMAIN th : CallGet(t)

\* The admin endpoint beside creates and reads, one request at a time, with
\* either driver behaviour on a closed client
InitAdmin ==
    InitWith({1}, BOOLEAN,
             [docs |-> MaxDocs, appends |-> 0, updates |-> 0, clients |-> MaxClients + 1],
             AllAdminInputs)
NextAdmin == CreateGetNext \/ AdminNext
SpecAdmin == InitAdmin /\ [][NextAdmin]_vars

\* Two pool threads on the admin endpoint and reads
InitRace ==
    InitWith({1, 2}, BOOLEAN,
             [docs |-> 0, appends |-> 0, updates |-> 0, clients |-> MaxClients + 1],
             FewAdminInputs)
NextRace ==
    \/ \E t \in DOMAIN th : StartGet(t)
    \/ \E t \in DOMAIN th : CallGet(t)
    \/ AdminNext
SpecRace == InitRace /\ [][NextRace]_vars

\* Two pool threads on the Record Service's writes
InitConc ==
    InitWith({1, 2}, {FALSE},
             [docs |-> MaxDocs - 1, appends |-> MaxAppends, updates |-> MaxUpdates,
              clients |-> 0],
             NoAdminInputs)
NextConc ==
    \/ \E t \in DOMAIN th : StartCreate(t)
    \/ \E t \in DOMAIN th : CallCreate(t)
    \/ \E t \in DOMAIN th : StartUpdateRecords(t)
    \/ \E t \in DOMAIN th : CallUpdateRecords(t)
    \/ \E t \in DOMAIN th : StartAddCondition(t)
    \/ \E t \in DOMAIN th : CallAddCondition(t)
    \/ \E t \in DOMAIN th : StartAddMedication(t)
    \/ \E t \in DOMAIN th : CallAddMedication(t)
    \/ \E t \in DOMAIN th : StartAddObservation(t)
    \/ \E t \in DOMAIN th : CallAddObservation(t)
SpecConc == InitConc /\ [][NextConc]_vars

-----------------------------------------------------------------------------
(* Claims about the Record Service (Spec).  Req is the request of the one  *)
(* thread; Before and After are the documents of the collection it used,   *)
(* when its store call was made and now.                                   *)

Req == th[1]
Completed(op) == Req.pc = "done" /\ Req.op = op
Before(r) == r.pre.stores[<<r.pre.clients[r.coll.cl].uri.host, r.coll.name>>]
After(r) == Docs(r.coll)

Declared == {"patientID", "name", "age", "gender", "region", "medicalRecords"}

\* document d carries payload p's six fields
SameFields(d, p) ==
    /\ Declared \subseteq DOMAIN d
    /\ d["patientID"] = JStr(p.patientID)
    /\ d["name"] = JStr(p.name)
    /\ d["age"] = JInt(p.age)
    /\ d["gender"] = JStr(p.gender)
    /\ d["region"] = JStr(p.region)
    /\ d["medicalRecords"] = JDoc([a \in ArrayNames |-> JArr(p.medicalRecords[a])])

\* what get_patient answers right after the create, for the created id
GetAfterCreate == get_patient(After(Req), Req.arg.patientID)

\* C1 as stated: create then get gives the payload back, whatever was stored
\* before, a document with the same patientID included
C1_RoundTripAlways ==
    Completed("create_patient") =>
        /\ GetAfterCreate.status = 200
        /\ SameFields(GetAfterCreate.body.v, Req.arg)

\* C1 amended: create then get gives the payload back when no stored document
\* had the same patientID before the create
C1_RoundTripFresh ==
    (Completed("create_patient") /\ FirstMatch(Before(Req), Req.arg.patientID) = 0) =>
        /\ Req.status = 200
        /\ GetAfterCreate.status = 200
        /\ SameFields(GetAfterCreate.body.v, Req.arg)

C1_Witness ==
    /\ Completed("create_patient")
    /\ FirstMatch(Before(Req), Req.arg.patientID) = 0
    /\ Len(Before(Req)) = 1
    /\ SameFields(GetAfterCreate.body.v, Req.arg)

\* the top-level keys an update names, and whether all its keys are such
PlainKeys(fm) == {fm[n].path[1] : n \in {m \in 1..Len(fm) : Len(fm[m].path) = 1}}
AllPlain(fm) == \A n \in 1..Len(fm) : Len(fm[n].path) = 1 /\ fm[n].path[1] # "_id"

\* every document but the i-th is as before
OthersKept(before, after, i) ==
    /\ Len(after) = Len(before)
    /\ \A j \in 1..Len(before) : j # i => after[j] = before[j]

\* every top-level field of d outside keys is in e with the same value
FieldsKept(d, e, keys) ==
    \A k \in DOMAIN d \ keys : k \in DOMAIN e /\ e[k] = d[k]

\* the fields an update names have the supplied values in e
FieldsSet(e, fm) ==
    \A n \in 1..Len(fm) :
        Len(fm[n].path) = 1 => fm[n].path[1] \in DOMAIN e /\ e[fm[n].path[1]] = fm[n].val

HasArray(d, arr) ==
    /\ "medicalRecords" \in DOMAIN d
    /\ IsDoc(d["medicalRecords"])
    /\ arr \in DOMAIN d["medicalRecords"].v => IsArr(d["medicalRecords"].v[arr])
ArrayIn(d, arr) ==
    IF arr \in DOMAIN d["medicalRecords"].v THEN d["medicalRecords"].v[arr].v ELSE <<>>

\* the request just before Req was an append to the same array of the same id
First == prev[1]
TwoAppends ==
    /\ Req.pc = "done"
    /\ Req.op \in AddOps
    /\ First.op = Req.op
    /\ First.id = Req.id
    /\ First.coll = Req.coll
    /\ FirstMatch(Before(First), Req.id) # 0
    /\ HasArray(Before(First)[FirstMatch(Before(First), Req.id)], ArrayOf(Req.op))

C4_ReplaceDiscards ==
    (Completed("update_medical_records") /\ FirstMatch(Before(Req), Req.id) # 0) =>
        LET i == FirstMatch(Before(Req), Req.id)
            got == get_medical_records(After(Req), Req.id)
        IN  /\ Req.status = 200
            /\ got.status = 200
            /\ got.body = JDoc([a \in ArrayNames |-> JArr(Req.arg[a])])
            /\ FieldsKept(Before(Req)[i], After(Req)[i], {"medicalRecords"})
            /\ DOMAIN After(Req)[i] = DOMAIN Before(Req)[i] \cup {"medicalRecords"}

C4_Witness ==
    /\ Completed("update_medical_records")
    /\ FirstMatch(Before(Req), Req.id) # 0
    /\ HasArray(Before(Req)[FirstMatch(Before(Req), Req.id)], "conditions")
    /\ Len(ArrayIn(Before(Req)[FirstMatch(Before(Req), Req.id)], "conditions")) = 2
    /\ Req.arg = EmptyRecords
    /\ Req.status = 200

ByPatientId ==
    {"get_patient", "update_patient", "get_medical_records", "update_medical_records",
     "add_condition", "add_medication", "add_observation"}

\* C5: with no document of the requested patientID in the collection, each of
\* the seven by-id requests answers 404 and leaves every collection as it was
C5_NotFound ==
    (Req.pc = "done" /\ Req.op \in ByPatientId /\ FirstMatch(Before(Req), Req.id) = 0) =>
        /\ Req.status = 404
        /\ stores = Req.pre.stores

C5_Witness ==
    /\ Completed("add_observation")
    /\ FirstMatch(Before(Req), Req.id) = 0
    /\ Len(Before(Req)) = 2
    /\ Req.status = 404


\* every stored document has the field / has it in the MedicalRecords shape
PresentAll ==
    \A x \in Targets : \A n \in 1..Len(stores[x]) :
        "medicalRecords" \in DOMAIN stores[x][n]
ShapeAll ==
    \A x \in Targets : \A n \in 1..Len(stores[x]) :
        /\ "medicalRecords" \in DOMAIN stores[x][n]
        /\ MedicalRecordsShape(stores[x][n]["medicalRecords"])

\* the update names medicalRecords, or a path below it
Touches(fm) == \E n \in 1..Len(fm) : fm[n].path[1] = "medicalRecords"

\* C7 as stated: after any sequence of requests, update_patient included,
\* every stored document embeds a value of the MedicalRecords shape
C7_AlwaysRecordsShape == ShapeAll

\* C7 amended: no request removes the field, and every request keeps the
\* MedicalRecords shape of every stored document, except an update_patient
\* whose field map names medicalRecords or a path below it
C7_ShapeKeptUnlessNamed ==
    [][/\ PresentAll'
       /\ (ShapeAll /\ ~(th'[1].op = "update_patient" /\ Touches(th'[1].arg)))
              => ShapeAll']_vars

C7_Witness ==
    /\ Completed("update_patient")
    /\ Req.status = 200
    /\ ~Touches(Req.arg)
    /\ After(Req) # Before(Req)
    /\ Len(After(Req)) = 2
    /\ ShapeAll

-----------------------------------------------------------------------------
(* Claims about the admin endpoint (SpecAdmin, SpecRace)                   *)

\* the status get_patient would answer with the globals of snapshot g
GetStatus(g, id) ==
    LET h == g.patients_collection
    IN  IF ~g.clients[h.cl].closed \/ reopens
        THEN get_patient(g.stores[<<g.clients[h.cl].uri.host, h.name>>], id).status
        ELSE 500

RightHeaders(a) ==
    a.username = Some(ADMIN_USERNAME) /\ a.password = Some(ADMIN_PASSWORD)

\* C6: a change-connection request whose header pair is not exactly the admin
\* pair answers 401 and leaves clients, the three globals and the stored
\* documents as they were, so a get_patient that succeeded before still does
C6_WrongCredentialsChangeNothing ==
    (Completed("change_connection") /\ ~RightHeaders(Req.arg)) =>
        /\ Req.status = 401
        /\ Snap = Req.pre
        /\ \A id \in Ids : GetStatus(Req.pre, id) = 200 => GetStatus(Snap, id) = 200

C6_Witness ==
    /\ Completed("change_connection")
    /\ Req.arg.username = Some(ADMIN_USERNAME)
    /\ Req.arg.password # Some(ADMIN_PASSWORD)
    /\ Req.status = 401
    /\ GetStatus(Snap, "p1") = 200

\* thread t is inside change_connection's try block
Changing(t) == th[t].pc \in {"close", "construct", "db", "coll"}

\* C10 as stated: with no change-connection request in progress, the three
\* globals belong to one client and that client has not been closed; after a
\* request that answered 500 they are the handle of before the request
C10_GlobalsAgreeAndOpen ==
    (\A t \in DOMAIN th : ~Changing(t)) =>
        /\ db.cl = client
        /\ patients_collection.cl = client
        /\ ~clients[client].closed
        /\ \A t \in DOMAIN th :
               (th[t].pc = "done" /\ th[t].op = "change_connection"
                   /\ th[t].status = 500) => Snap = th[t].pre

\* thread u's request has constructed a client, the globals are that client
\* and its database's collection, and every other client is closed
Installed(u) ==
    /\ th[u].op = "change_connection"
    /\ th[u].made # 0
    /\ client = th[u].made
    /\ clients[client].uri = MongoUri(th[u].arg.details)
    /\ db = [cl |-> client, name |-> th[u].arg.details.database]
    /\ patients_collection = db
    /\ \A c \in 1..Len(clients) : c # client <=> clients[c].closed

\* C8 as stated: when a change-connection request answers 200, the prior
\* client is closed and the globals are the handle built for a request's
\* host, port and database (its own, or that of a request that overtook it)
C8_ReturnInstallsHandle ==
    [][\A t \in DOMAIN th :
          (th[t].pc = "coll" /\ th'[t].pc = "done") =>
              \E u \in DOMAIN th : Installed(u)']_vars

-----------------------------------------------------------------------------
(* Claims about concurrent requests (SpecConc)                             *)

\* a and b have both completed an append to the same array of the same
\* patientID through the same handle, one having begun while the other's
\* store call was under way, and the patient and the array were there at
\* both store calls
ConcurrentAppends(a, b) ==
    /\ a # b
    /\ th[a].pc = "done" /\ th[b].pc = "done"
    /\ th[a].op \in AddOps
    /\ th[b].op = th[a].op
    /\ th[b].id = th[a].id
    /\ th[b].coll = th[a].coll
    /\ (a \in th[b].during \/ b \in th[a].during)
    /\ FirstMatch(Before(th[a]), th[a].id) # 0
    /\ FirstMatch(Before(th[b]), th[b].id) # 0
    /\ HasArray(Before(th[a])[FirstMatch(Before(th[a]), th[a].id)], ArrayOf(th[a].op))
    /\ HasArray(Before(th[b])[FirstMatch(Before(th[b]), th[b].id)], ArrayOf(th[b].op))

\* the array after a's and then b's store call: what a found, then a's and
\* b's elements
AppendedInOrder(a, b) ==
    LET arr == ArrayOf(th[a].op)
        i == FirstMatch(Before(th[a]), th[a].id)
        now == After(th[a])[FirstMatch(After(th[a]), th[a].id)]
    IN  /\ HasArray(now, arr)
        /\ ArrayIn(now, arr) = ArrayIn(Before(th[a])[i], arr) \o <<th[a].arg, th[b].arg>>

\* C9: two concurrent appends to one array of one existing patient both
\* answer 200 and leave the array as it was before the first store call,
\* followed by the two elements once each, in the order of the store calls
C9_BothAppendsTakeEffect ==
    \A a \in DOMAIN th : \A b \in DOMAIN th :
        ConcurrentAppends(a, b) =>
            /\ th[a].status = 200
            /\ th[b].status = 200
            /\ AppendedInOrder(a, b) \/ AppendedInOrder(b, a)

\* thread 2 began during thread 1's store call and its element went in first
C9_Witness ==
    /\ ConcurrentAppends(1, 2)
    /\ 1 \in th[2].during
    /\ th[1].arg # th[2].arg
    /\ AppendedInOrder(2, 1)
    /\ Len(ArrayIn(Before(th[2])[FirstMatch(Before(th[2]), th[2].id)],
                   ArrayOf(th[2].op))) > 0

====
